---- MODULE Spec2Model ----
(***************************************************************************)
(* Model of src/__main__.py of URI-ABD/anomaly: the chained command-line   *)
(* harness (cli, build, test, plot-results, svm, plot-data, animate), the  *)
(* cache of pickled manifolds it keeps in the build directory, and the     *)
(* path-naming helpers.                                                    *)
(*                                                                         *)
(* Python strings are sequences of one-character strings, so that join,    *)
(* split, basename and glob are computed character by character.  Python   *)
(* values are records [t |-> <type>, v |-> <payload>].                     *)
(***************************************************************************)
EXTENDS Integers, Sequences, FiniteSets, TLC

VARIABLES
    args,     \* arguments handed to _manifold_path by a direct caller
    path,     \* the path _manifold_path returned for args
    parsed,   \* what _meta_from_path, _dataset_from_path, _metric_from_path returned
    stage     \* position of the direct caller of the path helpers

VARIABLES
    fs,       \* the files under the build directory: path -> content
    state,    \* the State object handed from the group callback to the commands
    proc,     \* the process: status, number of commands invoked, uncaught error
    cmd,      \* the running command: name, options, locals, position
    log       \* what the running (or last) command did: reads, dumps, evaluations

pathvars == <<args, path, parsed, stage>>
clivars == <<fs, state, proc, cmd, log>>
vars == <<args, path, parsed, stage, fs, state, proc, cmd, log>>

----------------------------------------------------------------------------
(* Python values *)

Range(q) == {q[i] : i \in 1..Len(q)}

None == [t |-> "None", v |-> <<>>]
PyStr(s) == [t |-> "str", v |-> s]
PyInt(n) == [t |-> "int", v |-> n]
Raise(kind) == [t |-> "raise", v |-> kind]

DigitChars == <<"0", "1", "2", "3", "4", "5", "6", "7", "8", "9">>

RECURSIVE Digits(_)
Digits(n) == IF n < 10 THEN <<DigitChars[n + 1]>>
             ELSE Digits(n \div 10) \o <<DigitChars[(n % 10) + 1]>>

\* str(x) for the argument types the program passes: str and non-negative int
Str(x) == IF x.t = "int" THEN Digits(x.v) ELSE x.v

----------------------------------------------------------------------------
(* str.join, str.split, os.path.join, os.path.basename *)

RECURSIVE Join(_, _)
Join(sep, parts) ==
    IF Len(parts) = 0 THEN <<>>
    ELSE IF Len(parts) = 1 THEN parts[1]
    ELSE parts[1] \o sep \o Join(sep, Tail(parts))

\* index of the first occurrence of sub in s, 0 when there is none
Find(s, sub) ==
    LET hits == {i \in 1..(Len(s) - Len(sub) + 1) : SubSeq(s, i, i + Len(sub) - 1) = sub}
    IN  IF hits = {} THEN 0 ELSE CHOOSE i \in hits : \A j \in hits : i <= j

RECURSIVE Split(_, _)
Split(s, sep) ==
    LET k == Find(s, sep)
    IN  IF k = 0 THEN <<s>>
        ELSE <<SubSeq(s, 1, k - 1)>> \o Split(SubSeq(s, k + Len(sep), Len(s)), sep)

PathJoin(a, b) ==
    IF Len(b) > 0 /\ b[1] = "/" THEN b
    ELSE IF Len(a) = 0 \/ a[Len(a)] = "/" THEN a \o b
    ELSE a \o <<"/">> \o b

Basename(p) ==
    LET slashes == {i \in 1..Len(p) : p[i] = "/"}
        last == IF slashes = {} THEN 0 ELSE CHOOSE i \in slashes : \A j \in slashes : j <= i
    IN  SubSeq(p, last + 1, Len(p))

----------------------------------------------------------------------------
(* Path naming *)

BUILD_DIR == <<"/", "b", "u", "i", "l", "d">>
PICKLE == <<".", "p", "i", "c", "k", "l", "e">>
COLON == <<":">>

_manifold_path(dataset, metric, min_points, graph_ratio) ==
    PathJoin(BUILD_DIR,
             Join(COLON, <<Str(dataset), Str(metric), Str(min_points),
                           Str(graph_ratio) \o PICKLE>>))

\* os.path.basename raises TypeError for an argument that is no str
_dataset_from_path(p) ==
    IF p.t # "str" THEN Raise("TypeError")
    ELSE PyStr(Split(Basename(p.v), COLON)[1])

_metric_from_path(p) ==
    IF p.t # "str" THEN Raise("TypeError")
    ELSE LET bundle == Split(Basename(p.v), COLON)
         IN  IF Len(bundle) < 2 THEN Raise("IndexError") ELSE PyStr(bundle[2])

\* _meta_from_path leaving the '.pickle' suffix on graph_ratio
_meta_from_path_suffixed(p) ==
    IF p.t # "str" THEN Raise("TypeError")
    ELSE LET bundle == Split(Basename(p.v), COLON)
         IN  IF Len(bundle) < 4 THEN Raise("IndexError")
             ELSE [t |-> "dict",
                   v |-> [dataset |-> PyStr(bundle[1]),
                          metric |-> PyStr(bundle[2]),
                          min_points |-> PyStr(bundle[3]),
                          graph_ratio |-> PyStr(bundle[4])]]

_meta_from_path(p) ==
    IF p.t # "str" THEN Raise("TypeError")
    ELSE LET bundle == Split(Basename(p.v), COLON)
         IN  IF Len(bundle) < 4 THEN Raise("IndexError")
             ELSE [t |-> "dict",
                   v |-> [dataset |-> PyStr(bundle[1]),
                          metric |-> PyStr(bundle[2]),
                          min_points |-> PyStr(bundle[3]),
                          graph_ratio |-> PyStr(Split(bundle[4], PICKLE)[1])]]

----------------------------------------------------------------------------
(* Registries and options *)

cosine == <<"c", "o", "s", "i", "n", "e">>
euclidean == <<"e", "u", "c", "l", "i", "d", "e", "a", "n">>
manhattan == <<"m", "a", "n", "h", "a", "t", "t", "a", "n">>
cityblock == <<"c", "i", "t", "y", "b", "l", "o", "c", "k">>

\* METRICS: keys in insertion order, and the value of each key
METRICS_keys == <<cosine, euclidean, manhattan>>
METRICS(key) == IF key = manhattan THEN cityblock ELSE key

mnist == <<"m", "n", "i", "s", "t">>
http == <<"h", "t", "t", "p">>

\* keys of the dataset registry, in insertion order
DATASETS_keys == <<mnist, http>>

\* a name that is never split or joined is a string of one symbol
Word(w) == <<w>>

\* keys of the method registry; the first two are the depth-invariant ones
METHODS_keys == <<Word("n_points_in_ball"), Word("k_nearest"), Word("cluster_cardinality")>>
DepthInvariant == {Word("n_points_in_ball"), Word("k_nearest")}

RESULT_PLOTS_keys == <<Word("roc_curve"), Word("scatter")>>

RowThreshold == 10000

\* data.shape[0] of a dataset as read() may return it
RowCounts == {RowThreshold, RowThreshold + 1}

\* option values tried for build
MaxDepthArgs == {1, 2}
MinPointsArgs == {2, 5}
GraphRatioArgs == {100}

\* option values tried for test and plot-results
STAR == <<"*">>
MinPointsPatterns == {STAR, <<"3">>}
GraphRatioPatterns == {STAR}
StartingDepthArgs == {0, 2}

MaxChain == 2

----------------------------------------------------------------------------
(* The State object, truthiness, the file system *)

State(dataset, metric) == [dataset |-> dataset, metric |-> metric, manifold |-> None]

\* attribute access: __getattr__ answers None for a name that is no attribute
GetAttr(obj, name) == IF name \in DOMAIN obj THEN obj[name] ELSE None

Truthy(x) == CASE x.t = "None" -> FALSE
               [] x.t = "str" -> Len(x.v) > 0
               [] x.t = "int" -> x.v # 0
               [] OTHER -> TRUE

Or(x, y) == IF Truthy(x) THEN x ELSE y

\* os.path.exists answering False for a file that is there
Exists_never(p) == FALSE

Exists(p) == p \in DOMAIN fs

\* a dump that leaves a file that is already there as it was
Written_once(files, p, content) ==
    [q \in (DOMAIN files) \cup {p} |-> IF q \in DOMAIN files THEN files[q] ELSE content]

Written(files, p, content) ==
    [q \in (DOMAIN files) \cup {p} |-> IF q = p THEN content ELSE files[q]]

Dirname(p) ==
    LET slashes == {i \in 1..Len(p) : p[i] = "/"}
        last == IF slashes = {} THEN 0 ELSE CHOOSE i \in slashes : \A j \in slashes : j <= i
    IN  IF last <= 1 THEN SubSeq(p, 1, last) ELSE SubSeq(p, 1, last - 1)

\* fnmatch with '*' as the only wildcard
RECURSIVE Match(_, _)
Match(pat, name) ==
    IF Len(pat) = 0 THEN Len(name) = 0
    ELSE IF pat[1] = "*"
         THEN Match(Tail(pat), name) \/ (Len(name) > 0 /\ Match(pat, Tail(name)))
         ELSE Len(name) > 0 /\ name[1] = pat[1] /\ Match(Tail(pat), Tail(name))

RECURSIVE Listing(_)
Listing(S) == IF S = {} THEN <<>>
              ELSE LET x == CHOOSE y \in S : TRUE IN <<x>> \o Listing(S \ {x})

\* glob(pattern): the files of the pattern's directory whose name matches, in
\* directory order
glob(pattern) ==
    Listing({p \in DOMAIN fs : /\ Dirname(p) = Dirname(pattern)
                               /\ Match(Basename(pattern), Basename(p))})

----------------------------------------------------------------------------
(* The manifold library, as far as the harness observes it: a manifold     *)
(* keeps its data, its metric, the depth of its tree, the MinPoints        *)
(* criterion of its last partition and the calls that built it.  A tree    *)
(* partitioned under MaxDepth(k) is taken to reach depth k.                *)

Max(a, b) == IF a >= b THEN a ELSE b

Manifold(data, metric) ==
    [t |-> "Manifold",
     v |-> [data |-> data, metric |-> metric, depth |-> 0, min_points |-> 0, ops |-> <<>>]]

build_tree(m, max_depth, min_points) ==
    [m EXCEPT !.v.depth = Max(@, max_depth),
              !.v.min_points = min_points,
              !.v.ops = Append(@, "build_tree")]

build_graphs(m) == [m EXCEPT !.v.ops = Append(@, "build_graphs")]

manifold_build(m, max_depth, min_points) ==
    [m EXCEPT !.v.depth = Max(@, max_depth),
              !.v.min_points = min_points,
              !.v.ops = Append(@, "build")]

\* Manifold.load(fp, data): the pickled manifold over the data handed in
manifold_load(content, data) == [content EXCEPT !.v.data = data]

----------------------------------------------------------------------------
(* The process and the group callback *)

NoCmd == [name |-> "none", pc |-> "none"]
NoLog == [cmd |-> "none"]

Idle == [status |-> "idle", invoked |-> 0, error |-> "none"]

DatasetChoices == {None} \cup {PyStr(d) : d \in Range(DATASETS_keys)}
MetricChoices == {None} \cup {PyStr(m) : m \in Range(METRICS_keys)}

CanInvoke == /\ proc.status = "running"
             /\ cmd.name = "none"
             /\ proc.invoked < MaxChain

Invoked == [proc EXCEPT !.invoked = @ + 1]

\* a selection that ignores the chosen value
Selected_all(chosen, keys) == keys

\* lines 83-84, 130, 170-171, 213-214: [chosen] if chosen else REGISTRY.keys()
Selected(chosen, keys) == IF Truthy(chosen) THEN <<chosen.v>> ELSE keys

Aborted(kind) == [proc EXCEPT !.status = "aborted", !.error = kind]

\* a stub that returns instead of raising
NotImplemented_returns == [proc EXCEPT !.invoked = @ + 1]

\* lines 249 and 280: raise NotImplementedError
NotImplemented == [proc EXCEPT !.invoked = @ + 1, !.status = "aborted",
                                !.error = "NotImplementedError"]

cli(dataset, metric) ==
    /\ proc.status = "idle"
    /\ state' = State(dataset, metric)
    /\ proc' = [proc EXCEPT !.status = "running"]
    /\ UNCHANGED <<fs, cmd, log, pathvars>>

----------------------------------------------------------------------------
(* build *)

\* line 97: the value assigned to the local min_points for one pair
MinPointsFor(min_points, rows) == IF rows > RowThreshold THEN Max(3, min_points) ELSE 3

build_start(max_depth, min_points, graph_ratio) ==
    /\ CanInvoke
    /\ proc' = Invoked
    /\ cmd' = [name |-> "build", pc |-> "dataset",
               max_depth |-> max_depth, min_points |-> min_points,
               graph_ratio |-> graph_ratio,
               metrics |-> Selected(state.metric, METRICS_keys),
               datasets |-> Selected(state.dataset, DATASETS_keys),
               dataset |-> <<>>, rows |-> 0, todo |-> <<>>]
    /\ log' = [cmd |-> "build", done |-> FALSE, min_points |-> min_points,
               graph_ratio |-> graph_ratio, reads |-> <<>>, pairs |-> <<>>]
    /\ UNCHANGED <<fs, state, pathvars>>

\* lines 84-86: the head of the dataset loop
build_read(rows) ==
    /\ proc.status = "running"
    /\ cmd.name = "build" /\ cmd.pc = "dataset"
    /\ cmd.datasets # <<>>
    /\ cmd' = [cmd EXCEPT !.pc = "metric", !.dataset = Head(cmd.datasets),
                          !.datasets = Tail(cmd.datasets), !.rows = rows,
                          !.todo = cmd.metrics]
    /\ log' = [log EXCEPT !.reads = Append(@, Head(cmd.datasets))]
    /\ UNCHANGED <<fs, state, proc, pathvars>>

\* lines 88-120: one (dataset, metric) pair
build_pair ==
    /\ proc.status = "running"
    /\ cmd.name = "build" /\ cmd.pc = "metric"
    /\ cmd.todo # <<>>
    /\ LET metric == Head(cmd.todo)
           fresh == Manifold(cmd.dataset, METRICS(metric))
           min_points == MinPointsFor(cmd.min_points, cmd.rows)
           filepath == _manifold_path(PyStr(cmd.dataset), PyStr(metric),
                                      PyInt(min_points), PyInt(cmd.graph_ratio))
           hit == Exists(filepath)
           manifold == IF hit
                       THEN build_graphs(build_tree(manifold_load(fs[filepath], cmd.dataset),
                                                    cmd.max_depth, min_points))
                       ELSE manifold_build(fresh, cmd.max_depth, min_points)
       IN  /\ fs' = Written(fs, filepath, manifold)
           /\ state' = [state EXCEPT !.manifold = manifold]
           /\ cmd' = [cmd EXCEPT !.min_points = min_points,
                                 !.todo = Tail(cmd.todo),
                                 !.pc = IF Tail(cmd.todo) = <<>> THEN "dataset" ELSE "metric"]
           /\ log' = [log EXCEPT !.pairs = Append(@,
                          [dataset |-> cmd.dataset, metric |-> metric, rows |-> cmd.rows,
                           min_points |-> min_points, filepath |-> filepath, hit |-> hit,
                           before |-> IF hit THEN fs[filepath] ELSE None,
                           dumped |-> manifold])]
    /\ UNCHANGED <<proc, pathvars>>

----------------------------------------------------------------------------
(* test *)

\* the (method, depth) iterations of the nested loops over methods and
\* range(start, depth + 1), in the order the loops visit them
RECURSIVE Iterations(_, _, _)
Iterations(methods, start, depth) ==
    IF methods = <<>> THEN <<>>
    ELSE [i \in 1..Max(0, depth + 1 - start) |-> <<Head(methods), start + i - 1>>]
         \o Iterations(Tail(methods), start, depth)

\* the skip taken at the last depth too
Skipped_always(method, depth, manifold) ==
    method \in DepthInvariant /\ depth <= manifold.v.depth

\* lines 145 and 190: the iterations the loop body skips
Skipped(method, depth, manifold) ==
    method \in DepthInvariant /\ depth < manifold.v.depth

\* lines 129 and 169: the manifolds a sweep visits
Manifolds(min_points, graph_ratio) ==
    IF Truthy(state.manifold) THEN <<state.manifold>>
    ELSE LET found == glob(_manifold_path(Or(GetAttr(state, "datset"), PyStr(STAR)),
                                          Or(state.metric, PyStr(STAR)),
                                          min_points, graph_ratio))
         IN  [i \in 1..Len(found) |-> PyStr(found[i])]

GlobPattern(min_points, graph_ratio) ==
    IF Truthy(state.manifold) THEN None
    ELSE PyStr(_manifold_path(Or(GetAttr(state, "datset"), PyStr(STAR)),
                              Or(state.metric, PyStr(STAR)), min_points, graph_ratio))

MethodChoices == {None} \cup {PyStr(m) : m \in Range(METHODS_keys)}

test_start(method, min_points, graph_ratio) ==
    /\ CanInvoke
    /\ proc' = Invoked
    /\ cmd' = [name |-> "test", pc |-> "manifold",
               manifolds |-> Manifolds(min_points, graph_ratio),
               methods |-> Selected(method, METHODS_keys),
               manifold |-> None, iters |-> <<>>]
    /\ log' = [cmd |-> "test", done |-> FALSE,
               context |-> state.manifold,
               pattern |-> GlobPattern(min_points, graph_ratio),
               manifolds |-> Manifolds(min_points, graph_ratio),
               min_points |-> min_points, graph_ratio |-> graph_ratio,
               methods |-> Selected(method, METHODS_keys),
               start |-> 0, plots |-> <<Word("log")>>,
               visited |-> 0, source |-> None, manifold |-> None, read |-> None,
               evals |-> <<>>, swept |-> FALSE, last |-> "none"]
    /\ UNCHANGED <<fs, state, pathvars>>

\* lines 131-140: the head of the manifold loop: read the data, load the manifold
test_manifold ==
    /\ proc.status = "running"
    /\ cmd.name = "test" /\ cmd.pc = "manifold"
    /\ cmd.manifolds # <<>>
    /\ LET m == Head(cmd.manifolds)
           named == IF Truthy(state.dataset) THEN state.dataset ELSE _dataset_from_path(m)
       IN  IF named.t = "raise"
           THEN /\ proc' = Aborted(named.v)
                /\ log' = [log EXCEPT !.visited = @ + 1, !.source = m, !.manifold = None,
                                      !.read = None, !.evals = <<>>, !.swept = FALSE]
                /\ UNCHANGED <<cmd, fs, state, pathvars>>
           ELSE LET manifold == IF m.t = "str" THEN manifold_load(fs[m.v], named.v) ELSE m
                    iters == Iterations(cmd.methods, 0, manifold.v.depth)
                IN  /\ cmd' = [cmd EXCEPT !.manifolds = Tail(@), !.manifold = manifold,
                                          !.iters = iters,
                                          !.pc = IF iters = <<>> THEN "manifold" ELSE "iter"]
                    /\ log' = [log EXCEPT !.visited = @ + 1, !.source = m,
                                          !.manifold = manifold,
                                          !.read = named, !.evals = <<>>,
                                          !.swept = (iters = <<>>)]
                    /\ UNCHANGED <<proc, fs, state, pathvars>>

Outcomes == {"scored", "method raises", "score raises"}

\* lines 143-158: one (method, depth) iteration
test_iter(outcome) ==
    /\ proc.status = "running"
    /\ cmd.name = "test" /\ cmd.pc = "iter"
    /\ LET method == Head(cmd.iters)[1]
           depth == Head(cmd.iters)[2]
           rest == Tail(cmd.iters)
           advanced == [cmd EXCEPT !.iters = rest,
                                   !.pc = IF rest = <<>> THEN "manifold" ELSE "iter"]
           call == [method |-> method, depth |-> depth, plot |-> Word("log")]
       IN  IF Skipped(method, depth, cmd.manifold)
           THEN /\ outcome = "scored"
                /\ cmd' = advanced
                /\ log' = [log EXCEPT !.swept = (rest = <<>>), !.last = "skipped"]
                /\ UNCHANGED <<proc, fs, state, pathvars>>
           ELSE IF outcome = "method raises"
           THEN \* line 148 is outside the try block
                /\ proc' = Aborted("MethodError")
                /\ log' = [log EXCEPT !.evals = Append(@, call), !.last = "raised"]
                /\ UNCHANGED <<cmd, fs, state, pathvars>>
           ELSE /\ cmd' = advanced
                /\ log' = [log EXCEPT !.evals = Append(@, call),
                                      !.swept = (rest = <<>>),
                                      !.last = IF outcome = "score raises"
                                               THEN "caught" ELSE "scored"]
                /\ UNCHANGED <<proc, fs, state, pathvars>>

----------------------------------------------------------------------------
(* plot-results *)

PlotChoices == {None} \cup {PyStr(q) : q \in Range(RESULT_PLOTS_keys)}

plot_results_start(plot, method, starting_depth, min_points, graph_ratio) ==
    /\ CanInvoke
    /\ proc' = Invoked
    /\ cmd' = [name |-> "plot_results", pc |-> "manifold",
               manifolds |-> Manifolds(min_points, graph_ratio),
               methods |-> Selected(method, METHODS_keys),
               plots |-> Selected(plot, RESULT_PLOTS_keys),
               starting_depth |-> starting_depth,
               manifold |-> None, iters |-> <<>>]
    /\ log' = [cmd |-> "plot_results", done |-> FALSE,
               context |-> state.manifold,
               pattern |-> GlobPattern(min_points, graph_ratio),
               manifolds |-> Manifolds(min_points, graph_ratio),
               min_points |-> min_points, graph_ratio |-> graph_ratio,
               methods |-> Selected(method, METHODS_keys),
               start |-> starting_depth,
               plots |-> Selected(plot, RESULT_PLOTS_keys),
               visited |-> 0, source |-> None, manifold |-> None, read |-> None,
               evals |-> <<>>, swept |-> FALSE, last |-> "none"]
    /\ UNCHANGED <<fs, state, pathvars>>

\* lines 173-186: the head of the manifold loop
plot_results_manifold ==
    /\ proc.status = "running"
    /\ cmd.name = "plot_results" /\ cmd.pc = "manifold"
    /\ cmd.manifolds # <<>>
    /\ LET m == Head(cmd.manifolds)
           meta == _meta_from_path(m)
           named == IF ~Truthy(state.dataset)
                    THEN (IF meta.t = "raise" THEN meta ELSE meta.v.dataset)
                    ELSE state.dataset
       IN  IF named.t = "raise"
           THEN /\ proc' = Aborted(named.v)
                /\ log' = [log EXCEPT !.visited = @ + 1, !.source = m, !.manifold = None,
                                      !.read = None, !.evals = <<>>, !.swept = FALSE]
                /\ UNCHANGED <<cmd, fs, state, pathvars>>
           ELSE LET manifold == IF m.t = "str" THEN manifold_load(fs[m.v], named.v) ELSE m
                    iters == Iterations(cmd.methods, cmd.starting_depth, manifold.v.depth)
                IN  /\ cmd' = [cmd EXCEPT !.manifolds = Tail(@), !.manifold = manifold,
                                          !.iters = iters,
                                          !.pc = IF iters = <<>> THEN "manifold" ELSE "iter"]
                    /\ log' = [log EXCEPT !.visited = @ + 1, !.source = m,
                                          !.manifold = manifold,
                                          !.read = named, !.evals = <<>>,
                                          !.swept = (iters = <<>>)]
                    /\ UNCHANGED <<proc, fs, state, pathvars>>

\* lines 189-202: one (method, depth) iteration, the loop over the plots included;
\* failing = 0: no call raises, failing = k: the method raises at the k-th plot
plot_results_iter(failing) ==
    /\ proc.status = "running"
    /\ cmd.name = "plot_results" /\ cmd.pc = "iter"
    /\ failing \in 0..Len(cmd.plots)
    /\ LET method == Head(cmd.iters)[1]
           depth == Head(cmd.iters)[2]
           rest == Tail(cmd.iters)
           advanced == [cmd EXCEPT !.iters = rest,
                                   !.pc = IF rest = <<>> THEN "manifold" ELSE "iter"]
           made == IF failing = 0 THEN Len(cmd.plots) ELSE failing
           calls == [i \in 1..made |->
                        [method |-> method, depth |-> depth, plot |-> cmd.plots[i]]]
       IN  IF Skipped(method, depth, cmd.manifold)
           THEN /\ failing = 0
                /\ cmd' = advanced
                /\ log' = [log EXCEPT !.swept = (rest = <<>>), !.last = "skipped"]
                /\ UNCHANGED <<proc, fs, state, pathvars>>
           ELSE IF failing > 0
           THEN /\ proc' = Aborted("MethodError")
                /\ log' = [log EXCEPT !.evals = @ \o calls, !.last = "raised"]
                /\ UNCHANGED <<cmd, fs, state, pathvars>>
           ELSE /\ cmd' = advanced
                /\ log' = [log EXCEPT !.evals = @ \o calls, !.swept = (rest = <<>>),
                                      !.last = "plotted"]
                /\ UNCHANGED <<proc, fs, state, pathvars>>

----------------------------------------------------------------------------
(* svm *)

SVM_DIR == <<"s", "v", "m">>

OneClassSVM(data) == [t |-> "OneClassSVM", v |-> [fit |-> data]]

svm_start ==
    /\ CanInvoke
    /\ proc' = Invoked
    /\ cmd' = [name |-> "svm", pc |-> "dataset",
               datasets |-> Selected(state.dataset, DATASETS_keys),
               metrics |-> Selected(state.metric, METRICS_keys),
               dataset |-> <<>>, todo |-> <<>>]
    /\ log' = [cmd |-> "svm", done |-> FALSE, reads |-> <<>>, pairs |-> <<>>]
    /\ UNCHANGED <<fs, state, pathvars>>

\* lines 217-225: the head of the dataset loop
svm_read ==
    /\ proc.status = "running"
    /\ cmd.name = "svm" /\ cmd.pc = "dataset"
    /\ cmd.datasets # <<>>
    /\ cmd' = [cmd EXCEPT !.pc = "metric", !.dataset = Head(cmd.datasets),
                          !.datasets = Tail(cmd.datasets), !.todo = cmd.metrics]
    /\ log' = [log EXCEPT !.reads = Append(@, Head(cmd.datasets))]
    /\ UNCHANGED <<fs, state, proc, pathvars>>

\* lines 226-243: one (dataset, metric) pair
svm_pair ==
    /\ proc.status = "running"
    /\ cmd.name = "svm" /\ cmd.pc = "metric"
    /\ cmd.todo # <<>>
    /\ LET metric == Head(cmd.todo)
           filepath == PathJoin(PathJoin(BUILD_DIR, SVM_DIR),
                                Join(COLON, <<cmd.dataset, metric>>))
           hit == Exists(filepath)
           model == IF hit THEN fs[filepath] ELSE OneClassSVM(cmd.dataset)
       IN  /\ fs' = IF hit THEN fs ELSE Written(fs, filepath, model)
           /\ cmd' = [cmd EXCEPT !.todo = Tail(cmd.todo),
                                 !.pc = IF Tail(cmd.todo) = <<>> THEN "dataset" ELSE "metric"]
           /\ log' = [log EXCEPT !.pairs = Append(@,
                          [dataset |-> cmd.dataset, metric |-> metric, filepath |-> filepath,
                           loaded |-> hit, fitted |-> ~hit, dumped |-> ~hit,
                           scored |-> model])]
    /\ UNCHANGED <<state, proc, pathvars>>

----------------------------------------------------------------------------
(* plot-data and animate, the return of a command, the end of the chain *)

plot_data ==
    /\ CanInvoke
    /\ proc' = NotImplemented
    /\ log' = [cmd |-> "plot_data"]
    /\ UNCHANGED <<fs, state, cmd, pathvars>>

animate(dataset, metric) ==
    /\ CanInvoke
    /\ proc' = NotImplemented
    /\ log' = [cmd |-> "animate"]
    /\ UNCHANGED <<fs, state, cmd, pathvars>>

\* a command returns when its outermost loop is exhausted
Return ==
    /\ proc.status = "running"
    /\ \/ cmd.name \in {"build", "svm"} /\ cmd.pc = "dataset" /\ cmd.datasets = <<>>
       \/ cmd.name \in {"test", "plot_results"} /\ cmd.pc = "manifold"
          /\ cmd.manifolds = <<>>
    /\ cmd' = NoCmd
    /\ log' = [log EXCEPT !.done = TRUE]
    /\ UNCHANGED <<fs, state, proc, pathvars>>

Exit ==
    /\ proc.status = "running"
    /\ cmd.name = "none"
    /\ proc.invoked > 0
    /\ proc' = [proc EXCEPT !.status = "exited"]
    /\ UNCHANGED <<fs, state, cmd, log, pathvars>>

----------------------------------------------------------------------------
(* The command line *)

EmptyFS == [p \in {} |-> None]

\* the cache a finished `build --max-depth 1` leaves when no dataset has more
\* than 10,000 rows
BuiltPaths ==
    {_manifold_path(PyStr(d), PyStr(m), PyInt(3), PyInt(100)) :
        d \in Range(DATASETS_keys), m \in Range(METRICS_keys)}

BuiltCache ==
    [p \in BuiltPaths |->
        LET d == CHOOSE d \in Range(DATASETS_keys) :
                     \E m \in Range(METRICS_keys) :
                         p = _manifold_path(PyStr(d), PyStr(m), PyInt(3), PyInt(100))
            m == CHOOSE m \in Range(METRICS_keys) :
                     p = _manifold_path(PyStr(d), PyStr(m), PyInt(3), PyInt(100))
        IN  manifold_build(Manifold(d, METRICS(m)), 1, 3)]

\* the models a finished `--dataset mnist svm` leaves
FittedPaths ==
    {PathJoin(PathJoin(BUILD_DIR, SVM_DIR), Join(COLON, <<mnist, m>>)) :
        m \in Range(METRICS_keys)}

UsedCache ==
    [p \in BuiltPaths \cup FittedPaths |->
        IF p \in BuiltPaths THEN BuiltCache[p] ELSE OneClassSVM(mnist)]

\* the build directory before the process starts: empty, or as earlier runs left it
InitialCaches == {EmptyFS, UsedCache}

NoArgs == [dataset |-> None, metric |-> None, min_points |-> None, graph_ratio |-> None]
NoParsed == [meta |-> None, dataset |-> None, metric |-> None]

Init ==
    /\ fs \in InitialCaches
    /\ state = State(None, None)
    /\ proc = Idle
    /\ cmd = NoCmd
    /\ log = NoLog
    /\ args = NoArgs
    /\ path = None
    /\ parsed = NoParsed
    /\ stage = "idle"

Next ==
    \/ \E dataset \in DatasetChoices, metric \in MetricChoices : cli(dataset, metric)
    \/ \E max_depth \in MaxDepthArgs, min_points \in MinPointsArgs,
          graph_ratio \in GraphRatioArgs : build_start(max_depth, min_points, graph_ratio)
    \/ \E rows \in RowCounts : build_read(rows)
    \/ build_pair
    \/ \E method \in MethodChoices, min_points \in MinPointsPatterns,
          graph_ratio \in GraphRatioPatterns :
            test_start(method, PyStr(min_points), PyStr(graph_ratio))
    \/ test_manifold
    \/ \E outcome \in Outcomes : test_iter(outcome)
    \/ \E plot \in PlotChoices, method \in MethodChoices,
          starting_depth \in StartingDepthArgs, min_points \in MinPointsPatterns,
          graph_ratio \in GraphRatioPatterns :
            plot_results_start(plot, method, starting_depth,
                               PyStr(min_points), PyStr(graph_ratio))
    \/ plot_results_manifold
    \/ \E failing \in 0..Len(RESULT_PLOTS_keys) : plot_results_iter(failing)
    \/ svm_start
    \/ svm_read
    \/ svm_pair
    \/ plot_data
    \/ \E dataset \in {STAR, mnist}, metric \in {STAR} : animate(dataset, metric)
    \/ Return
    \/ Exit

Spec == Init /\ [][Next]_vars

----------------------------------------------------------------------------
(* Direct calls of the path helpers, on arbitrary arguments *)

MaxStrLen == 1

Chars == {"a", ":", "/"}

Strings == UNION {[1..k -> Chars] : k \in 0..MaxStrLen}

IntArgs == {3, 100}

PathDatasets == {PyStr(d) : d \in Range(DATASETS_keys) \cup Strings}
PathMetrics == {PyStr(m) : m \in Range(METRICS_keys) \cup Strings}
PathMinPoints == {PyInt(n) : n \in IntArgs} \cup {PyStr(x) : x \in Strings \cup {STAR}}
PathGraphRatios == PathMinPoints \cup {PyStr(x \o PICKLE) : x \in Strings}

PathInit ==
    /\ fs = EmptyFS
    /\ state = State(None, None)
    /\ proc = Idle
    /\ cmd = NoCmd
    /\ log = NoLog
    /\ args \in [dataset : PathDatasets, metric : PathMetrics,
                  min_points : PathMinPoints, graph_ratio : PathGraphRatios]
    /\ path = None
    /\ parsed = NoParsed
    /\ stage = "args"

manifold_path_call ==
    /\ stage = "args"
    /\ path' = PyStr(_manifold_path(args.dataset, args.metric,
                                    args.min_points, args.graph_ratio))
    /\ stage' = "path"
    /\ UNCHANGED <<args, parsed, clivars>>

meta_from_path_call ==
    /\ stage = "path"
    /\ parsed' = [parsed EXCEPT !.meta = _meta_from_path(path)]
    /\ stage' = "meta"
    /\ UNCHANGED <<args, path, clivars>>

dataset_from_path_call ==
    /\ stage = "meta"
    /\ parsed' = [parsed EXCEPT !.dataset = _dataset_from_path(path)]
    /\ stage' = "dataset"
    /\ UNCHANGED <<args, path, clivars>>

metric_from_path_call ==
    /\ stage = "dataset"
    /\ parsed' = [parsed EXCEPT !.metric = _metric_from_path(path)]
    /\ stage' = "done"
    /\ UNCHANGED <<args, path, clivars>>

PathNext ==
    \/ manifold_path_call
    \/ meta_from_path_call
    \/ dataset_from_path_call
    \/ metric_from_path_call

PathSpec == PathInit /\ [][PathNext]_vars

----------------------------------------------------------------------------
(* Claims *)

IsPrefix(a, b) == Len(a) <= Len(b) /\ SubSeq(b, 1, Len(a)) = a

Last(q) == q[Len(q)]

Has(x, sub) == \E i \in 1..Len(x) : i + Len(sub) - 1 <= Len(x)
                                     /\ SubSeq(x, i, i + Len(sub) - 1) = sub

ArgFields == {"dataset", "metric", "min_points", "graph_ratio"}

\* no field's string form holds a ':' or a '/', and graph_ratio's holds no '.pickle'
Separable(a) ==
    /\ \A f \in ArgFields : ~Has(Str(a[f]), <<":">>) /\ ~Has(Str(a[f]), <<"/">>)
    /\ ~Has(Str(a.graph_ratio), PICKLE)

\* C1 as stated: parsing the path of (dataset, metric, min_points, graph_ratio)
\* gives back the same four values, for every value of the four.
C1_RoundTripSame ==
    stage = "done" =>
        /\ parsed.meta.t = "dict"
        /\ \A f \in ArgFields : parsed.meta.v[f] = args[f]
        /\ parsed.dataset = args.dataset
        /\ parsed.metric = args.metric

\* C1 amended: when no field's string form holds ':' or '/' and graph_ratio's
\* holds no '.pickle', parsing the path gives back the string form str(x) of
\* each of the four fields, and _dataset_from_path and _metric_from_path give
\* back the string forms of dataset and metric.
C1_RoundTripStr ==
    (stage = "done" /\ Separable(args)) =>
        /\ parsed.meta.t = "dict"
        /\ \A f \in ArgFields : parsed.meta.v[f] = PyStr(Str(args[f]))
        /\ parsed.dataset = PyStr(Str(args.dataset))
        /\ parsed.metric = PyStr(Str(args.metric))

C1_Witness ==
    /\ stage = "done"
    /\ args = [dataset |-> PyStr(mnist), metric |-> PyStr(manhattan),
               min_points |-> PyInt(3), graph_ratio |-> PyInt(100)]
    /\ parsed.meta.t = "dict"
    /\ parsed.meta.v.min_points = PyStr(<<"3">>)
    /\ parsed.meta.v.graph_ratio = PyStr(<<"1", "0", "0">>)

\* C2 as stated: in the test sweep an error raised by a scoring method is
\* caught and logged and the sweep goes on: the command is never aborted by it.
C2_MethodErrorCaught ==
    ~(log.cmd = "test" /\ proc.status = "aborted" /\ proc.error = "MethodError")

\* C3: every invocation of plot-data or animate raises NotImplementedError
\* and leaves the cached files and the context as they were.
C3_StubsAlwaysFail ==
    [][(log'.cmd \in {"plot_data", "animate"} /\ proc'.invoked = proc.invoked + 1) =>
          /\ proc'.status = "aborted"
          /\ proc'.error = "NotImplementedError"
          /\ fs' = fs
          /\ state' = state]_vars

C3_Witness ==
    /\ log.cmd = "animate"
    /\ proc.status = "aborted" /\ proc.error = "NotImplementedError"
    /\ proc.invoked = 2
    /\ state.manifold.t = "Manifold"
    /\ DOMAIN fs # {}

\* C4 as stated: a test or plot-results that finds the manifold build left in
\* the context visits exactly that manifold, looks nothing up by glob and
\* reads the data of that manifold's dataset, whether or not a dataset was chosen.
C4_ContextManifoldEvaluated ==
    (log.cmd \in {"test", "plot_results"} /\ log.context.t = "Manifold"
     /\ log.visited >= 1) =>
        /\ log.pattern = None
        /\ log.manifolds = <<log.context>>
        /\ log.manifold = log.context
        /\ log.read = PyStr(log.context.v.data)

\* C5 as stated: with no manifold in the context the glob pattern carries the
\* chosen dataset and the chosen metric ('*' for a field not chosen), so every
\* artifact visited is one of the chosen dataset and metric.
C5_GlobFollowsChoice ==
    (log.cmd \in {"test", "plot_results"} /\ log.context = None) =>
        /\ log.pattern = PyStr(BUILD_DIR \o <<"/">>
                               \o (IF state.dataset = None THEN STAR ELSE state.dataset.v)
                               \o <<":">>
                               \o (IF state.metric = None THEN STAR ELSE state.metric.v)
                               \o <<":">> \o log.min_points.v
                               \o <<":">> \o log.graph_ratio.v \o PICKLE)
        /\ \A i \in 1..Len(log.manifolds) :
              /\ state.dataset # None =>
                    _dataset_from_path(log.manifolds[i]) = state.dataset
              /\ state.metric # None =>
                    _metric_from_path(log.manifolds[i]) = state.metric

ChosenDatasets == IF state.dataset = None THEN DATASETS_keys ELSE <<state.dataset.v>>
ChosenMetrics == IF state.metric = None THEN METRICS_keys ELSE <<state.metric.v>>

PicklePath(dataset, metric, min_points, graph_ratio) ==
    BUILD_DIR \o <<"/">> \o dataset \o <<":">> \o metric \o <<":">>
              \o Digits(min_points) \o <<":">> \o Digits(graph_ratio) \o PICKLE

C6_PairStep ==
    (log.cmd = "build" /\ log'.cmd = "build" /\ Len(log'.pairs) = Len(log.pairs) + 1) =>
        LET e == Last(log'.pairs)
            dumped == state'.manifold
            P == PicklePath(e.dataset, e.metric, dumped.v.min_points, log.graph_ratio)
        IN  /\ dumped.t = "Manifold"
            /\ P \in DOMAIN fs' /\ fs'[P] = dumped
            /\ dumped.v.data = e.dataset /\ dumped.v.metric = METRICS(e.metric)
            /\ P \in DOMAIN fs =>
                  /\ dumped.v.ops = fs[P].v.ops \o <<"build_tree", "build_graphs">>
                  /\ dumped.v.depth >= fs[P].v.depth
            /\ P \notin DOMAIN fs => dumped.v.ops = <<"build">>
            /\ \A Q \in DOMAIN fs \ {P} : Q \in DOMAIN fs' /\ fs'[Q] = fs[Q]

C6_WhenDone ==
    (log.cmd = "build" /\ log.done) =>
        /\ state.manifold.t = "Manifold"
        /\ \A d \in Range(ChosenDatasets), m \in Range(ChosenMetrics) :
              \E P \in DOMAIN fs :
                  /\ fs[P].t = "Manifold"
                  /\ fs[P].v.data = d /\ fs[P].v.metric = METRICS(m)
                  /\ fs[P].v.ops # <<>>
                  /\ fs[P].v.ops[Len(fs[P].v.ops)] \in {"build", "build_graphs"}
                  /\ P = PicklePath(d, m, fs[P].v.min_points, log.graph_ratio)

\* C6: each pair build processes leaves its manifold at
\* <build dir>/<dataset>:<metric>:<min_points>:<graph_ratio>.pickle, min_points
\* being the MinPoints criterion the manifold was partitioned with; a file found
\* there is loaded, extended by build_tree then build_graphs and overwritten, a
\* missing one is built from scratch; the context's manifold is the one dumped;
\* when build returns every pair of its sweep has its file.
C6_BuildCachesEveryPair == [][C6_PairStep]_vars /\ []C6_WhenDone

C6_Witness ==
    /\ log.cmd = "build" /\ log.done
    /\ Len(log.pairs) = 6
    /\ \E i \in 1..6 : log.pairs[i].hit /\ log.pairs[i].min_points = 3
    /\ \E i \in 1..6 : ~log.pairs[i].hit /\ log.pairs[i].min_points = 5
    /\ state.manifold.v.ops = <<"build", "build_tree", "build_graphs">>

SvmPath(dataset, metric) ==
    BUILD_DIR \o <<"/", "s", "v", "m", "/">> \o dataset \o <<":">> \o metric

C7_PairStep ==
    (log.cmd = "svm" /\ log'.cmd = "svm" /\ Len(log'.pairs) = Len(log.pairs) + 1) =>
        LET e == Last(log'.pairs)
            P == SvmPath(e.dataset, e.metric)
        IN  /\ P \in DOMAIN fs =>
                  /\ fs' = fs
                  /\ e.loaded /\ ~e.fitted /\ ~e.dumped
                  /\ e.scored = fs[P]
            /\ P \notin DOMAIN fs =>
                  /\ e.fitted /\ e.dumped /\ ~e.loaded
                  /\ DOMAIN fs' = DOMAIN fs \cup {P}
                  /\ fs'[P] = e.scored
                  /\ e.scored.t = "OneClassSVM" /\ e.scored.v.fit = e.dataset
                  /\ \A Q \in DOMAIN fs : fs'[Q] = fs[Q]

C7_WhenDone ==
    (log.cmd = "svm" /\ log.done) =>
        /\ \A d \in Range(ChosenDatasets), m \in Range(ChosenMetrics) :
              /\ SvmPath(d, m) \in DOMAIN fs
              /\ Cardinality({i \in 1..Len(log.pairs) :
                      log.pairs[i].dataset = d /\ log.pairs[i].metric = m}) = 1
        /\ Len(log.pairs) = Len(ChosenDatasets) * Len(ChosenMetrics)

\* C7: svm keeps the model of a pair at <build dir>/svm/<dataset>:<metric>: it
\* fits and dumps one exactly when no file is there on reaching the pair, and
\* otherwise loads the file and leaves every file as it was; either way the
\* pair is scored once.
C7_SvmCache == [][C7_PairStep]_vars /\ []C7_WhenDone

C7_Witness ==
    /\ log.cmd = "svm" /\ log.done
    /\ Len(log.pairs) = 6
    /\ \E i \in 1..6 : log.pairs[i].loaded
    /\ \E i \in 1..6 : log.pairs[i].fitted

\* C8: build processes the chosen datasets x the chosen metrics (all of a
\* registry when nothing is chosen), each pair once, dataset-major, reading
\* each dataset once.
C8_BuildSweep ==
    log.cmd = "build" =>
        LET D == ChosenDatasets
            M == ChosenMetrics
            n == Len(log.pairs)
        IN  /\ n <= Len(D) * Len(M)
            /\ \A k \in 1..n :
                  /\ log.pairs[k].dataset = D[((k - 1) \div Len(M)) + 1]
                  /\ log.pairs[k].metric = M[((k - 1) % Len(M)) + 1]
            /\ IsPrefix(log.reads, D)
            /\ n > 0 => Len(log.reads) >= ((n - 1) \div Len(M)) + 1
            /\ Len(log.reads) <= (n \div Len(M)) + 1
            /\ log.done => (n = Len(D) * Len(M) /\ log.reads = D)

C8_Witness ==
    /\ log.cmd = "build" /\ log.done
    /\ state.dataset = None /\ state.metric = None
    /\ Len(log.pairs) = 6 /\ Len(log.reads) = 2
    /\ log.pairs[4].dataset = http /\ log.pairs[4].metric = cosine

\* C9 as stated: the min_points of a pair is max(3, --min-points) when its
\* dataset has more than 10,000 rows and 3 otherwise, whatever pairs came before.
C9_MinPointsPerPair ==
    log.cmd = "build" =>
        \A k \in 1..Len(log.pairs) :
            log.pairs[k].min_points =
                IF log.pairs[k].rows > 10000
                THEN (IF log.min_points > 3 THEN log.min_points ELSE 3)
                ELSE 3

EvalsOf(method) ==
    LET idx == {i \in 1..Len(log.evals) : log.evals[i].method = method}
    IN  [d \in 0..log.manifold.v.depth |->
            Cardinality({i \in idx : log.evals[i].depth = d})]

\* C10 as stated: over a manifold of depth D a depth-invariant method is
\* evaluated exactly once, at depth D, and every other selected method exactly
\* once at each depth from the starting depth to D.
C10_OncePerDepth ==
    (log.cmd \in {"test", "plot_results"} /\ log.manifold.t = "Manifold" /\ log.swept) =>
        \A method \in Range(log.methods) :
            \A d \in 0..log.manifold.v.depth :
                EvalsOf(method)[d] =
                    IF method \in {Word("n_points_in_ball"), Word("k_nearest")}
                    THEN (IF d = log.manifold.v.depth THEN 1 ELSE 0)
                    ELSE (IF d >= log.start THEN 1 ELSE 0)

RECURSIVE Flat(_)
Flat(qq) == IF qq = <<>> THEN <<>> ELSE Head(qq) \o Flat(Tail(qq))

ExpectedDepths(method, start, D) ==
    IF start > D THEN <<>>
    ELSE IF method \in {Word("n_points_in_ball"), Word("k_nearest")} THEN <<D>>
    ELSE [i \in 1..(D - start + 1) |-> start + i - 1]

ExpectedEvals(methods, start, D, plots) ==
    Flat([i \in 1..Len(methods) |->
        LET ds == ExpectedDepths(methods[i], start, D)
        IN  Flat([j \in 1..Len(ds) |->
                [k \in 1..Len(plots) |->
                    [method |-> methods[i], depth |-> ds[j], plot |-> plots[k]]]])])

\* C10 amended: over a manifold of depth D the evaluations are made method by
\* method in increasing depth: a depth-invariant method at depth D only, any
\* other selected method at each depth from the starting depth to D, once per
\* iteration in test and once per selected plot in plot-results, and none at
\* all when the starting depth exceeds D; a sweep a raising method cuts short
\* has made a prefix of these evaluations.
C10_SweepEvaluations ==
    (log.cmd \in {"test", "plot_results"} /\ log.manifold.t = "Manifold") =>
        LET expected == ExpectedEvals(log.methods, log.start, log.manifold.v.depth,
                                      log.plots)
        IN  /\ IsPrefix(log.evals, expected)
            /\ log.swept => log.evals = expected

C10_Witness ==
    /\ log.cmd = "plot_results" /\ log.swept
    /\ log.manifold.t = "Manifold" /\ log.manifold.v.depth = 2
    /\ log.start = 0
    /\ Len(log.methods) = 3 /\ Len(log.plots) = 2
    /\ Len(log.evals) = 10

====
